---- MODULE Spec2Model ----
(***************************************************************************)
(* Scene-continuity video assembly pipeline of digital-twin-hub.           *)
(*                                                                         *)
(* Two implementations of the pipeline live in the repository and both are *)
(* modelled, selected by the variable impl:                                *)
(*   "ref"  video_generation_reference.py  (generate_video,                *)
(*          generate_scenes, stitch_videos)                                *)
(*   "pkg"  src/main.py + src/generators/video_generator.py                *)
(*          (generate_video, VideoGenerator.generate_videos,               *)
(*          VideoGenerator.stitch_final_video)                             *)
(* The variable entry says how the run was started: through the            *)
(* generate_video wrapper, or by calling the scene loop and the final      *)
(* stitcher directly, as a caller holding a VideoGenerator object does.     *)
(* The reference is entered through generate_video only.                   *)
(*                                                                         *)
(* External services (scene planning, render, frame decode, upload, audio  *)
(* synthesis, moviepy) are nondeterministic: every action draws their      *)
(* answer from a small set.                                                *)
(*                                                                         *)
(* Three specifications:                                                   *)
(*   Spec        one run of the pipeline, from its arguments to its result *)
(*   SpecAttach  the audio attachment of the Final Assembler applied to    *)
(*               one video clip and one sound effect of any two lengths    *)
(*   SpecRuns    several runs started one after the other in one process,  *)
(*               with the files each of them writes                        *)
(***************************************************************************)
EXTENDS Integers, Sequences, FiniteSets, TLC

(* ------------------------------ bounds --------------------------------- *)
\* scenes per plan
MaxScenes == 2
\* distinct URLs the upload service can return
NumURLs == 2
\* pending answers one poll loop is followed through
MaxPolls == 2
\* longest clip, in seconds, handed to the audio attachment
MaxDuration == 6
\* pipeline runs started one after the other in one process
MaxRuns == 2
\* seconds of wall clock followed
MaxClock == 2

(* ------------------------- program constants --------------------------- *)
max_retries == 3

\* None for a URL slot
NoURL == 0
\* URL of the externally supplied initial frame
InitialImageURL == 100
\* URL of the LoRA first frame generated for scene i (0-based)
LoraURL(i) == 200 + i

UploadURLs == 1..NumURLs

Impls == {"ref", "pkg"}
Engines == {"luma", "ltx", "fal"}
\* scene durations a plan can carry: one- and two-segment durations of every
\* engine, each of them unrecognised by at least one engine
SceneDurations == {5, 10, 14}
\* the optional features a run switches on: none, or one of LoRA first
\* frames, narration and sound effects
FeatureSets == {{}, {"lora"}, {"narration"}, {"sound_effects"}}

(* ------------------------------ helpers -------------------------------- *)
RECURSIVE SumSeq(_)
SumSeq(s) == IF s = <<>> THEN 0 ELSE Head(s) + SumSeq(Tail(s))

RECURSIVE PlansOfLen(_)
PlansOfLen(n) ==
  IF n = 0 THEN {<<>>}
  ELSE {Append(p, d) : p \in PlansOfLen(n - 1), d \in SceneDurations}

\* every plan the Scene Planning Service can answer with
Plans == UNION {PlansOfLen(n) : n \in 1..MaxScenes}

(* -------------------------- Segment Planner ---------------------------- *)
\* video_durations_ref with the two-segment rows of the Luma table answered
\* as one segment of the whole duration
video_durations_ref_OneSegment(video_engine, scene_duration) ==
  IF video_engine \in {"ltx", "fal"}
  THEN IF scene_duration = 5 THEN [ok |-> TRUE, list |-> <<5>>]
       ELSE IF scene_duration = 10 THEN [ok |-> TRUE, list |-> <<5, 5>>]
       ELSE [ok |-> FALSE, list |-> <<>>]
  ELSE IF scene_duration \in {5, 9, 14, 18}
       THEN [ok |-> TRUE, list |-> <<scene_duration>>]
       ELSE [ok |-> FALSE, list |-> <<>>]

\* generate_scenes, reference: [ok |-> FALSE] stands for the raised ValueError
video_durations_ref(video_engine, scene_duration) ==
  IF video_engine \in {"ltx", "fal"}
  THEN IF scene_duration = 5 THEN [ok |-> TRUE, list |-> <<5>>]
       ELSE IF scene_duration = 10 THEN [ok |-> TRUE, list |-> <<5, 5>>]
       ELSE [ok |-> FALSE, list |-> <<>>]
  ELSE IF scene_duration = 5 \/ scene_duration = 9
       THEN [ok |-> TRUE, list |-> <<scene_duration>>]
       ELSE IF scene_duration = 14 THEN [ok |-> TRUE, list |-> <<5, 9>>]
       ELSE IF scene_duration = 18 THEN [ok |-> TRUE, list |-> <<9, 9>>]
       ELSE [ok |-> FALSE, list |-> <<>>]

\* VideoGenerator._get_video_durations
get_video_durations(video_engine, scene_duration) ==
  IF video_engine = "ltx" THEN [ok |-> TRUE, list |-> <<5>>]
  ELSE IF scene_duration = 5 \/ scene_duration = 9
       THEN [ok |-> TRUE, list |-> <<scene_duration>>]
       ELSE IF scene_duration = 14 THEN [ok |-> TRUE, list |-> <<5, 9>>]
       ELSE IF scene_duration = 18 THEN [ok |-> TRUE, list |-> <<9, 9>>]
       ELSE [ok |-> FALSE, list |-> <<>>]

SegmentPlan(im, video_engine, scene_duration) ==
  IF im = "ref" THEN video_durations_ref(video_engine, scene_duration)
  ELSE get_video_durations(video_engine, scene_duration)

(* ----------------------- start frame of a render ----------------------- *)
\* StartFrameRef without the branch that hands the cross-scene token on
StartFrameRef_NoCross(i, vid_idx, first, lora, last, seglast) ==
  IF vid_idx = 1 /\ i = 0 /\ first # NoURL THEN [url |-> first, src |-> "initial"]
  ELSE IF vid_idx = 1 /\ lora # NoURL THEN [url |-> lora, src |-> "lora"]
  ELSE IF vid_idx > 1 /\ seglast # NoURL THEN [url |-> seglast, src |-> "within"]
  ELSE [url |-> NoURL, src |-> "none"]

\* StartFrameRef with the LoRA frame tested before the initial frame
StartFrameRef_LoraFirst(i, vid_idx, first, lora, last, seglast) ==
  IF vid_idx = 1 /\ lora # NoURL THEN [url |-> lora, src |-> "lora"]
  ELSE IF vid_idx = 1 /\ i = 0 /\ first # NoURL THEN [url |-> first, src |-> "initial"]
  ELSE IF vid_idx = 1 /\ i > 0 /\ last # NoURL THEN [url |-> last, src |-> "cross"]
  ELSE IF vid_idx > 1 /\ seglast # NoURL THEN [url |-> seglast, src |-> "within"]
  ELSE [url |-> NoURL, src |-> "none"]

\* the if/elif chain of generate_scenes (identical for fal, ltx and luma);
\* i is the 0-based scene index, vid_idx the 1-based segment index
StartFrameRef(i, vid_idx, first, lora, last, seglast) ==
  IF vid_idx = 1 /\ i = 0 /\ first # NoURL THEN [url |-> first, src |-> "initial"]
  ELSE IF vid_idx = 1 /\ lora # NoURL THEN [url |-> lora, src |-> "lora"]
  ELSE IF vid_idx = 1 /\ i > 0 /\ last # NoURL THEN [url |-> last, src |-> "cross"]
  ELSE IF vid_idx > 1 /\ seglast # NoURL THEN [url |-> seglast, src |-> "within"]
  ELSE [url |-> NoURL, src |-> "none"]

\* the if/elif chain of VideoGenerator.generate_videos (ltx and luma)
StartFramePkg(i, vid_idx, first, last, seglast) ==
  IF vid_idx = 1 /\ i = 0 /\ first # NoURL THEN [url |-> first, src |-> "initial"]
  ELSE IF vid_idx = 1 /\ i > 0 /\ last # NoURL THEN [url |-> last, src |-> "cross"]
  ELSE IF vid_idx > 1 /\ seglast # NoURL THEN [url |-> seglast, src |-> "within"]
  ELSE [url |-> NoURL, src |-> "none"]

(* --------------------------- upload retry ------------------------------ *)
\* UploadAccepted without the comparison against the held token
UploadAccepted_Any(new_frame_url, held) == new_frame_url # NoURL

\* new_frame_url != segment_last_frame_url
UploadAccepted(new_frame_url, held) == new_frame_url # held

\* vid_idx == len(video_durations)
IsLastVideo(vid_idx, durations) == vid_idx = Len(durations)

(* ------------------------------- state --------------------------------- *)
VARIABLES
  impl,                 \* which implementation runs
  video_engine,         \* argument video_engine
  entry,                \* "generate_video" | "direct"
  lora_in_first_frame_mode,
  metadata_only,
  skip_narration,
  skip_sound_effects,
  pc,                   \* position of the run
  scenes,               \* the plan: sequence of scene durations
  i,                    \* 0-based index of the scene being processed
  vid_idx,              \* 1-based index of the segment being processed
  video_durations,      \* segment plan of the current scene
  first_frame_of_first_scene_url,
  scene_start_image_url,
  segment_last_frame_url,   \* within-scene continuity token
  last_frame_url,           \* cross-scene continuity token
  retry_count,
  scene_videos,         \* segment videos of the current scene
  scene_video_files,    \* one entry per finished scene
  sound_effect_files,   \* "None" or "file" per scene
  narration_audio_path, \* "None" | "file"
  final_clips,          \* clips the Final Assembler concatenated
  result,               \* what the run handed back to its caller
  error,                \* kind of the exception that ended the run
  errAt,                \* scene and segment being processed when it was raised
  renders,              \* history: every render call issued
  accepted,             \* history: every accepted frame upload
  uploadLog,            \* history: per extracted frame, the upload answers
  planned,              \* history: every answer of the Segment Planner
  extractions,          \* history: every last-frame extraction
  narration,            \* history: how the narration stage ended
  assembly,             \* history: what the Final Assembler met and wrote
  assembled,            \* the Final Assembler was invoked
  generation_state,     \* last state the render service reported
  polls,                \* pending answers seen by the poll loop of this render
  video_file,           \* the file at video_path: "absent" | "empty" | "video"
  attach,               \* one video clip and one sound effect being combined
  clock,                \* wall clock of the process, in seconds
  timestamp,            \* the run identifier in use
  run,                  \* number of the pipeline run in this process
  written               \* every file written: its path and the run that wrote it

vars == <<impl, video_engine, entry, lora_in_first_frame_mode, metadata_only,
          skip_narration, skip_sound_effects, pc, scenes, i, vid_idx,
          video_durations, first_frame_of_first_scene_url,
          scene_start_image_url, segment_last_frame_url, last_frame_url,
          retry_count, scene_videos, scene_video_files, sound_effect_files,
          narration_audio_path, final_clips, result, error, errAt, renders,
          accepted, uploadLog, planned, extractions, narration, assembly,
          assembled, generation_state, polls, video_file, attach, clock,
          timestamp, run, written>>

\* the arguments of the run, never written after Init
args == <<impl, video_engine, entry, lora_in_first_frame_mode, metadata_only,
          skip_narration, skip_sound_effects>>

\* the local variables of the scene loop
loopvars == <<i, vid_idx, video_durations, scene_start_image_url,
              segment_last_frame_url, last_frame_url, retry_count,
              scene_videos, scene_video_files>>

history == <<renders, accepted, uploadLog, planned, extractions>>

\* the state of the render call in progress
rendervars == <<generation_state, polls, video_file>>

\* the clip pair of the audio attachment and the process around the runs
procvars == <<attach, clock, timestamp, run, written>>

\* the Final Assembler before it ran: the scene videos that did not load, the
\* sound-effect paths that did not exist, the sound effects that could not be
\* processed, whether narration was mixed in and whether the file was written
NoAssembly == [loadFail |-> {}, missing |-> {}, audioFail |-> {},
               narration |-> FALSE, written |-> FALSE]

NoResult == [value |-> "none", path |-> "None"]

\* no clip pair is being combined
NoAttach == [video |-> 0, audio |-> 0, clip |-> <<>>]

\* the optional features switched on by the arguments
OptionalFeatures ==
  (IF lora_in_first_frame_mode THEN {"lora"} ELSE {})
  \cup (IF skip_narration THEN {} ELSE {"narration"})
  \cup (IF skip_sound_effects THEN {} ELSE {"sound_effects"})

Init ==
  /\ impl \in Impls
  /\ video_engine \in (IF impl = "ref" THEN Engines ELSE {"luma", "ltx"})
  /\ entry \in (IF impl = "ref" THEN {"generate_video"}
                ELSE {"generate_video", "direct"})
  /\ lora_in_first_frame_mode \in (IF impl = "ref" THEN BOOLEAN ELSE {FALSE})
  /\ metadata_only \in (IF entry = "generate_video" THEN BOOLEAN ELSE {FALSE})
  /\ skip_narration \in (IF entry = "generate_video" THEN BOOLEAN ELSE {TRUE})
  /\ skip_sound_effects \in
       (IF entry = "direct" /\ impl = "pkg" THEN {TRUE} ELSE BOOLEAN)
  /\ OptionalFeatures \in FeatureSets
  \* generate_scenes takes the same branches for fal as for ltx: narration
  \* and sound effects are explored with luma and ltx
  /\ video_engine = "fal" => OptionalFeatures \subseteq {"lora"}
  /\ pc = "entry"
  /\ scenes = <<>>
  /\ i = 0
  /\ vid_idx = 0
  /\ video_durations = <<>>
  /\ first_frame_of_first_scene_url = NoURL
  /\ scene_start_image_url = NoURL
  /\ segment_last_frame_url = NoURL
  /\ last_frame_url = NoURL
  /\ retry_count = 0
  /\ scene_videos = <<>>
  /\ scene_video_files = <<>>
  /\ sound_effect_files = <<>>
  /\ narration_audio_path = "None"
  /\ final_clips = <<>>
  /\ result = NoResult
  /\ error = "none"
  /\ errAt = [scene |-> 0, seg |-> 0]
  /\ renders = <<>>
  /\ accepted = <<>>
  /\ uploadLog = <<>>
  /\ planned = <<>>
  /\ extractions = <<>>
  /\ narration = "not_run"
  /\ assembly = NoAssembly
  /\ assembled = FALSE
  /\ generation_state = "none"
  /\ polls = 0
  /\ video_file = "absent"
  /\ attach = NoAttach
  /\ clock = 0
  /\ timestamp = 0
  /\ run = 1
  /\ written = {}

(* ------------------------ how a run ends -------------------------------- *)
\* Raised without the "except Exception" of generate_video: the exception
\* reaches the caller
Raised_Uncaught(kind) ==
  /\ error' = kind
  /\ errAt' = [scene |-> i, seg |-> vid_idx]
  /\ pc' = "done"
  /\ result' = [value |-> "raised", path |-> "None"]

\* An exception leaves the scene loop at once.  Under generate_video it is
\* caught by "except Exception" and turned into (str(e), None); in a direct
\* call it reaches the caller.
Raised(kind) ==
  /\ error' = kind
  /\ errAt' = [scene |-> i, seg |-> vid_idx]
  /\ pc' = "done"
  /\ result' = [value |-> IF entry = "generate_video" THEN "error" ELSE "raised",
                path |-> "None"]

Continue(next) ==
  /\ pc' = next
  /\ UNCHANGED <<result, error, errAt>>

(* --------------------- generate_video, up to the loop ------------------- *)
\* the argument checks that open generate_video
ValidateArgs ==
  /\ pc = "entry"
  /\ entry = "generate_video"
  /\ \E valid \in BOOLEAN :
       IF valid THEN Continue("plan") ELSE Raised("ValueError")
  /\ UNCHANGED <<args, scenes, loopvars, first_frame_of_first_scene_url,
                 sound_effect_files, narration_audio_path, final_clips,
                 history, narration, assembly,
                 assembled, rendervars, procvars>>

\* PlanScenes without the metadata_only return
PlanScenes_NoEarlyReturn ==
  /\ pc = "plan"
  /\ \/ /\ Raised("PlanningError")
        /\ UNCHANGED scenes
     \/ /\ scenes' \in Plans
        /\ Continue("narration")
  /\ UNCHANGED <<args, loopvars, first_frame_of_first_scene_url,
                 sound_effect_files, narration_audio_path, final_clips,
                 history, narration, assembly, assembled, rendervars, procvars>>

\* generate_scene_metadata / SceneGenerator.generate_scenes, then the
\* metadata_only return
PlanScenes ==
  /\ pc = "plan"
  /\ \/ /\ Raised("PlanningError")
        /\ UNCHANGED scenes
     \/ /\ scenes' \in Plans
        /\ IF metadata_only
           THEN /\ pc' = "done"
                /\ result' = [value |-> "metadata", path |-> "None"]
                /\ UNCHANGED <<error, errAt>>
           ELSE Continue("narration")
  /\ UNCHANGED <<args, loopvars, first_frame_of_first_scene_url,
                 sound_effect_files, narration_audio_path, final_clips,
                 history, narration, assembly,
                 assembled, rendervars, procvars>>

\* reference: generate_narration_text raises, generate_narration_audio
\* answers None on any failure.  Package: NarrationGenerator.__init__ reads
\* datetime, which its module never imports, before any service is called.
Narration ==
  /\ pc = "narration"
  /\ IF skip_narration
     THEN /\ Continue(IF impl = "ref" THEN "prelude" ELSE "sound_pkg")
          /\ UNCHANGED <<narration_audio_path, narration>>
     ELSE IF impl = "pkg"
     THEN /\ Raised("NameError")
          /\ UNCHANGED <<narration_audio_path, narration>>
     ELSE \/ /\ Raised("NarrationTextError")
             /\ narration' = "text_failed"
             /\ UNCHANGED narration_audio_path
          \/ /\ \E audio \in {"None", "file"} :
                  /\ narration_audio_path' = audio
                  /\ narration' = (IF audio = "file" THEN "ok" ELSE "audio_failed")
             /\ Continue("prelude")
  /\ UNCHANGED <<args, scenes, loopvars, first_frame_of_first_scene_url,
                 sound_effect_files, final_clips, history, assembly,
                 assembled, rendervars, procvars>>

\* package: SoundGenerator.__init__ reads datetime, never imported
SoundEffectsPkg ==
  /\ pc = "sound_pkg"
  /\ IF skip_sound_effects THEN Continue("construct") ELSE Raised("NameError")
  /\ UNCHANGED <<args, scenes, loopvars, first_frame_of_first_scene_url,
                 sound_effect_files, narration_audio_path, final_clips,
                 history, narration, assembly,
                 assembled, rendervars, procvars>>

\* package: VideoGenerator.__init__ reads datetime, never imported
ConstructVideoGenerator ==
  /\ pc = "construct"
  /\ Raised("NameError")
  /\ UNCHANGED <<args, scenes, loopvars, first_frame_of_first_scene_url,
                 sound_effect_files, narration_audio_path, final_clips,
                 history, narration, assembly,
                 assembled, rendervars, procvars>>

\* the scene loop called by itself, on a plan handed in by the caller
DirectCall ==
  /\ pc = "entry"
  /\ entry = "direct"
  /\ scenes' \in Plans
  /\ Continue("prelude")
  /\ UNCHANGED <<args, loopvars, first_frame_of_first_scene_url,
                 sound_effect_files, narration_audio_path, final_clips,
                 history, narration, assembly,
                 assembled, rendervars, procvars>>

\* The initial frame of the run: None when no initial image was asked for or
\* when making it failed.  An initial image is asked for only in runs without
\* narration and sound effects, which never look at it.
InitialFrames ==
  IF OptionalFeatures \subseteq {"lora"} THEN {NoURL, InitialImageURL}
  ELSE {NoURL}

\* the lines of generate_scenes / generate_videos before the scene loop: the
\* reference refuses to make sound effects without an ElevenLabs key; the
\* initial frame is uploaded or generated, or stays None
InitialImage ==
  /\ pc = "prelude"
  /\ \/ /\ impl = "ref" /\ ~skip_sound_effects
        /\ Raised("ValueError")
        /\ UNCHANGED first_frame_of_first_scene_url
     \/ /\ first_frame_of_first_scene_url' \in InitialFrames
        /\ Continue("scene")
  /\ UNCHANGED <<args, scenes, loopvars, sound_effect_files,
                 narration_audio_path, final_clips, history, narration, assembly,
                 assembled, rendervars, procvars>>

(* ------------------------------ scene loop ------------------------------ *)
\* top of the loop body: the Segment Planner
PlanSegments ==
  /\ pc = "scene"
  /\ LET plan == SegmentPlan(impl, video_engine, scenes[i + 1]) IN
       /\ planned' = Append(planned, [scene |-> i, duration |-> scenes[i + 1],
                                      ok |-> plan.ok, list |-> plan.list])
       /\ IF plan.ok
          THEN /\ video_durations' = plan.list
               /\ scene_videos' = <<>>
               /\ segment_last_frame_url' =
                    (IF impl = "pkg" THEN NoURL ELSE segment_last_frame_url)
               /\ vid_idx' = (IF impl = "pkg" THEN 1 ELSE vid_idx)
               /\ Continue(IF impl = "ref" THEN "sound" ELSE "render")
          ELSE /\ Raised("UnsupportedDuration")
               /\ UNCHANGED <<video_durations, scene_videos,
                              segment_last_frame_url, vid_idx>>
  /\ UNCHANGED <<args, scenes, i, scene_start_image_url, last_frame_url,
                 retry_count, scene_video_files,
                 first_frame_of_first_scene_url, sound_effect_files,
                 narration_audio_path, final_clips, renders, accepted,
                 uploadLog, extractions, narration, assembly,
                 assembled, rendervars, procvars>>

\* SoundEffect with a failed synthesis raised instead of recorded as None
SoundEffect_Fatal ==
  /\ pc = "sound"
  /\ IF skip_sound_effects
     THEN /\ sound_effect_files' = Append(sound_effect_files, "None")
          /\ Continue("lora")
     ELSE \E f \in {"None", "file"} :
            IF f = "file"
            THEN /\ sound_effect_files' = Append(sound_effect_files, f)
                 /\ Continue("lora")
            ELSE /\ Raised("SynthesisError")
                 /\ UNCHANGED sound_effect_files
  /\ UNCHANGED <<args, scenes, loopvars, first_frame_of_first_scene_url,
                 narration_audio_path, final_clips, history, narration,
                 assembly, assembled, rendervars, procvars>>

\* reference: the sound effect of the scene; every failure appends None
SoundEffect ==
  /\ pc = "sound"
  /\ IF skip_sound_effects
     THEN sound_effect_files' = Append(sound_effect_files, "None")
     ELSE \E f \in {"None", "file"} :
            sound_effect_files' = Append(sound_effect_files, f)
  /\ Continue("lora")
  /\ UNCHANGED <<args, scenes, loopvars, first_frame_of_first_scene_url,
                 narration_audio_path, final_clips, history, narration, assembly,
                 assembled, rendervars, procvars>>

\* LoraFirstFrame without the reset of the within-scene token
LoraFirstFrame_NoReset ==
  /\ pc = "lora"
  /\ UNCHANGED segment_last_frame_url
  /\ IF lora_in_first_frame_mode
     THEN scene_start_image_url' \in {NoURL, LoraURL(i)}
     ELSE scene_start_image_url' = NoURL
  /\ vid_idx' = 1
  /\ Continue("render")
  /\ UNCHANGED <<args, scenes, i, video_durations, last_frame_url,
                 retry_count, scene_videos, scene_video_files,
                 first_frame_of_first_scene_url, sound_effect_files,
                 narration_audio_path, final_clips, history, narration, assembly,
                 assembled, rendervars, procvars>>

\* reference: reset of the within-scene token and the LoRA first frame; a
\* failed LoRA inference leaves scene_start_image_url None
LoraFirstFrame ==
  /\ pc = "lora"
  /\ segment_last_frame_url' = NoURL
  /\ IF lora_in_first_frame_mode
     THEN scene_start_image_url' \in {NoURL, LoraURL(i)}
     ELSE scene_start_image_url' = NoURL
  /\ vid_idx' = 1
  /\ Continue("render")
  /\ UNCHANGED <<args, scenes, i, video_durations, last_frame_url,
                 retry_count, scene_videos, scene_video_files,
                 first_frame_of_first_scene_url, sound_effect_files,
                 narration_audio_path, final_clips, history, narration, assembly,
                 assembled, rendervars, procvars>>

StartFrame ==
  IF impl = "ref"
  THEN StartFrameRef(i, vid_idx, first_frame_of_first_scene_url,
                     scene_start_image_url, last_frame_url,
                     segment_last_frame_url)
  ELSE StartFramePkg(i, vid_idx, first_frame_of_first_scene_url,
                     last_frame_url, segment_last_frame_url)

\* the render call of one segment is issued; with luma the service answers
\* with a generation that is not finished yet
RenderSubmit ==
  /\ pc = "render"
  /\ renders' = Append(renders, [scene |-> i, seg |-> vid_idx,
                                 url |-> StartFrame.url, src |-> StartFrame.src,
                                 lora |-> scene_start_image_url])
  /\ generation_state' = (IF video_engine = "luma" THEN "dreaming" ELSE "none")
  /\ polls' = 0
  /\ video_file' = "absent"
  /\ Continue("rendering")
  /\ UNCHANGED <<args, scenes, loopvars, first_frame_of_first_scene_url,
                 sound_effect_files, narration_audio_path, final_clips,
                 accepted, uploadLog, planned, extractions, narration, assembly,
                 assembled, procvars>>

\* what follows the last statement of a segment's loop body
AfterSegment == IF vid_idx < Len(video_durations) THEN "render" ELSE "stitch"

NextVidIdx == IF vid_idx < Len(video_durations) THEN vid_idx + 1 ELSE vid_idx

\* the poll loop may give up: TimeoutError once 300 seconds have gone by, which
\* takes at least one pending answer.  Only LumaVideoGenerator has the test.
PollTimeout == impl = "ref" /\ polls >= 1

\* RenderPoll with the 300-second test in the package loop as well
RenderPoll_TimeoutEverywhere ==
  /\ pc = "rendering"
  /\ video_engine = "luma"
  /\ generation_state = "dreaming"
  /\ \/ /\ polls >= 1
        /\ Raised("RenderError")
        /\ UNCHANGED <<generation_state, polls>>
     \/ \E state \in {"dreaming", "completed", "failed"} :
          /\ generation_state' = state
          /\ IF state = "dreaming"
             THEN /\ polls < MaxPolls
                  /\ polls' = polls + 1
                  /\ Continue("rendering")
             ELSE IF state = "completed"
             THEN /\ polls' = 0
                  /\ Continue("rendering")
             ELSE /\ polls' = 0
                  /\ Raised("RenderError")
  /\ UNCHANGED <<args, scenes, loopvars, first_frame_of_first_scene_url,
                 sound_effect_files, narration_audio_path, final_clips,
                 history, narration, assembly, assembled, video_file, procvars>>

\* one turn of the luma poll loop: the timeout test of the reference, then
\* generations.get and the test of the state it reports
RenderPoll ==
  /\ pc = "rendering"
  /\ video_engine = "luma"
  /\ generation_state = "dreaming"
  /\ \/ /\ PollTimeout
        /\ Raised("RenderError")
        /\ UNCHANGED <<generation_state, polls>>
     \/ \E state \in {"dreaming", "completed", "failed"} :
          /\ generation_state' = state
          /\ IF state = "dreaming"
             THEN /\ polls < MaxPolls
                  /\ polls' = polls + 1
                  /\ Continue("rendering")
             ELSE IF state = "completed"
             THEN /\ polls' = 0
                  /\ Continue("rendering")
             ELSE /\ polls' = 0
                  /\ Raised("RenderError")
  /\ UNCHANGED <<args, scenes, loopvars, first_frame_of_first_scene_url,
                 sound_effect_files, narration_audio_path, final_clips,
                 history, narration, assembly, assembled, video_file, procvars>>

\* the render call is past the service: luma has reported completed, fal and
\* ltx block inside fal_client.subscribe
Rendered == video_engine = "luma" => generation_state = "completed"

\* What the download can leave at video_path.  The package's luma branch
\* writes the response body with open(): a file is always there.
DownloadOutcomes ==
  IF impl = "pkg" /\ video_engine = "luma"
  THEN {"video", "empty", "failed"}
  ELSE {"video", "empty", "absent", "failed"}

\* RenderFinish with the render failure logged instead of raised: the loop
\* goes on with the next segment
RenderFinish_BestEffort ==
  /\ pc = "rendering"
  /\ Rendered
  /\ UNCHANGED <<generation_state, polls>>
  /\ \E outcome \in DownloadOutcomes :
       IF outcome \in {"video", "empty"}
       THEN /\ scene_videos' = Append(scene_videos, [scene |-> i, seg |-> vid_idx])
            /\ video_file' = outcome
            /\ Continue("extract")
            /\ UNCHANGED vid_idx
       ELSE /\ error' = "RenderError"
            /\ errAt' = [scene |-> i, seg |-> vid_idx]
            /\ pc' = AfterSegment
            /\ vid_idx' = NextVidIdx
            /\ UNCHANGED <<scene_videos, result, video_file>>
  /\ UNCHANGED <<args, scenes, i, video_durations,
                 scene_start_image_url, segment_last_frame_url, last_frame_url,
                 retry_count, scene_video_files,
                 first_frame_of_first_scene_url, sound_effect_files,
                 narration_audio_path, final_clips, history, narration, assembly,
                 assembled, procvars>>

\* RenderFinish with a failed render sent back to the render call
RenderFinish_Resubmit ==
  /\ pc = "rendering"
  /\ Rendered
  /\ UNCHANGED <<generation_state, polls>>
  /\ \E outcome \in DownloadOutcomes :
       IF outcome \in {"video", "empty"}
       THEN /\ scene_videos' = Append(scene_videos, [scene |-> i, seg |-> vid_idx])
            /\ video_file' = outcome
            /\ Continue("extract")
       ELSE /\ Continue("render")
            /\ UNCHANGED <<scene_videos, video_file>>
  /\ UNCHANGED <<args, scenes, i, vid_idx, video_durations,
                 scene_start_image_url, segment_last_frame_url, last_frame_url,
                 retry_count, scene_video_files,
                 first_frame_of_first_scene_url, sound_effect_files,
                 narration_audio_path, final_clips, history, narration, assembly,
                 assembled, procvars>>

\* RenderFinish with the size of the file tested as well as its existence
RenderFinish_SizeChecked ==
  /\ pc = "rendering"
  /\ Rendered
  /\ UNCHANGED <<generation_state, polls>>
  /\ \E outcome \in DownloadOutcomes :
       IF outcome = "video"
       THEN /\ scene_videos' = Append(scene_videos, [scene |-> i, seg |-> vid_idx])
            /\ video_file' = outcome
            /\ Continue("extract")
       ELSE /\ Raised("RenderError")
            /\ UNCHANGED <<scene_videos, video_file>>
  /\ UNCHANGED <<args, scenes, i, vid_idx, video_durations,
                 scene_start_image_url, segment_last_frame_url, last_frame_url,
                 retry_count, scene_video_files,
                 first_frame_of_first_scene_url, sound_effect_files,
                 narration_audio_path, final_clips, history, narration, assembly,
                 assembled, procvars>>

\* The render call comes back.  The download raised, or left no file, which
\* the test of os.path.exists turns into an exception; or it left a file,
\* whose size nobody looks at, and the segment counts as rendered.
RenderFinish ==
  /\ pc = "rendering"
  /\ Rendered
  /\ UNCHANGED <<generation_state, polls>>
  /\ \E outcome \in DownloadOutcomes :
       IF outcome \in {"video", "empty"}
       THEN /\ scene_videos' = Append(scene_videos, [scene |-> i, seg |-> vid_idx])
            /\ video_file' = outcome
            /\ Continue("extract")
       ELSE /\ Raised("RenderError")
            /\ UNCHANGED <<scene_videos, video_file>>
  /\ UNCHANGED <<args, scenes, i, vid_idx, video_durations,
                 scene_start_image_url, segment_last_frame_url, last_frame_url,
                 retry_count, scene_video_files,
                 first_frame_of_first_scene_url, sound_effect_files,
                 narration_audio_path, final_clips, history, narration, assembly,
                 assembled, procvars>>

\* what cv2 can make of the file: an empty file does not open
Decodings ==
  IF video_file = "empty" THEN {"not_opened"}
  ELSE {"frame", "not_opened", "no_frame"}

\* the last frame of the segment is decoded.  Reference: both failures raise.
\* Package: _extract_last_frame raises when the file does not open and
\* returns False when no frame is read, and the caller then skips the upload.
ExtractLastFrame ==
  /\ pc = "extract"
  /\ \E outcome \in Decodings :
       /\ extractions' = Append(extractions,
            [scene |-> i, seg |-> vid_idx, outcome |-> outcome])
       /\ IF outcome = "frame"
          THEN /\ retry_count' = 0
               /\ uploadLog' = Append(uploadLog,
                    [scene |-> i, seg |-> vid_idx, held |-> segment_last_frame_url,
                     urls |-> <<>>, outcome |-> "pending", token |-> NoURL])
               /\ Continue("upload")
               /\ UNCHANGED vid_idx
          ELSE IF outcome = "no_frame" /\ impl = "pkg"
          THEN /\ Continue(AfterSegment)
               /\ vid_idx' = NextVidIdx
               /\ UNCHANGED <<retry_count, uploadLog>>
          ELSE /\ Raised("DecodeError")
               /\ UNCHANGED <<retry_count, uploadLog, vid_idx>>
  /\ UNCHANGED <<args, scenes, i, video_durations, scene_start_image_url,
                 segment_last_frame_url, last_frame_url, scene_videos,
                 scene_video_files, first_frame_of_first_scene_url,
                 sound_effect_files, narration_audio_path, final_clips,
                 renders, accepted, planned, narration, assembly,
                 assembled, rendervars, procvars>>

\* the URLs the upload service has answered so far
SeenURLs ==
  UNION {{uploadLog[n].urls[k] : k \in 1..Len(uploadLog[n].urls)} :
           n \in 1..Len(uploadLog)}

\* What the upload service can answer next.  The pipeline only compares URLs
\* for equality, so the answers are named in order of first appearance: an
\* answer is a URL seen before or the next unused one.
UploadAnswers == {u \in UploadURLs : u <= Cardinality(SeenURLs) + 1}

\* UploadAttempt with the answer stored in the cross-scene slot before it is
\* compared: a rejected answer is published too
UploadAttempt_PublishRejected ==
  /\ pc = "upload"
  /\ retry_count < max_retries
  /\ \E new_frame_url \in UploadAnswers :
       LET n == Len(uploadLog)
           answers == Append(uploadLog[n].urls, new_frame_url)
       IN
       IF UploadAccepted(new_frame_url, segment_last_frame_url)
       THEN /\ IF IsLastVideo(vid_idx, video_durations)
               THEN /\ last_frame_url' = new_frame_url
                    /\ UNCHANGED segment_last_frame_url
               ELSE /\ segment_last_frame_url' = new_frame_url
                    /\ UNCHANGED last_frame_url
            /\ accepted' = Append(accepted,
                 [scene |-> i, seg |-> vid_idx, url |-> new_frame_url,
                  last |-> IsLastVideo(vid_idx, video_durations)])
            /\ uploadLog' = [uploadLog EXCEPT ![n].urls = answers,
                               ![n].outcome = "ready", ![n].token = new_frame_url]
            /\ Continue(AfterSegment)
            /\ vid_idx' = NextVidIdx
            /\ UNCHANGED retry_count
       ELSE /\ retry_count' = retry_count + 1
            /\ IF retry_count + 1 = max_retries
               THEN /\ Raised("UploadStalenessError")
                    /\ uploadLog' = [uploadLog EXCEPT ![n].urls = answers,
                                       ![n].outcome = "stale"]
               ELSE /\ Continue("upload")
                    /\ uploadLog' = [uploadLog EXCEPT ![n].urls = answers]
            /\ last_frame_url' = new_frame_url
            /\ UNCHANGED <<segment_last_frame_url, accepted, vid_idx>>
  /\ UNCHANGED <<args, scenes, i, video_durations, scene_start_image_url,
                 scene_videos, scene_video_files,
                 first_frame_of_first_scene_url, sound_effect_files,
                 narration_audio_path, final_clips, renders, planned,
                 extractions, narration, assembly,
                 assembled, rendervars, procvars>>

\* UploadAttempt with the answer for a first segment compared with the
\* cross-scene token
UploadAttempt_ComparesCrossScene ==
  /\ pc = "upload"
  /\ retry_count < max_retries
  /\ \E new_frame_url \in UploadAnswers :
       LET n == Len(uploadLog)
           answers == Append(uploadLog[n].urls, new_frame_url)
       IN
       IF UploadAccepted(new_frame_url,
                         IF vid_idx = 1 THEN last_frame_url
                         ELSE segment_last_frame_url)
       THEN /\ IF IsLastVideo(vid_idx, video_durations)
               THEN /\ last_frame_url' = new_frame_url
                    /\ UNCHANGED segment_last_frame_url
               ELSE /\ segment_last_frame_url' = new_frame_url
                    /\ UNCHANGED last_frame_url
            /\ accepted' = Append(accepted,
                 [scene |-> i, seg |-> vid_idx, url |-> new_frame_url,
                  last |-> IsLastVideo(vid_idx, video_durations)])
            /\ uploadLog' = [uploadLog EXCEPT ![n].urls = answers,
                               ![n].outcome = "ready", ![n].token = new_frame_url]
            /\ Continue(AfterSegment)
            /\ vid_idx' = NextVidIdx
            /\ UNCHANGED retry_count
       ELSE /\ retry_count' = retry_count + 1
            /\ IF retry_count + 1 = max_retries
               THEN /\ Raised("UploadStalenessError")
                    /\ uploadLog' = [uploadLog EXCEPT ![n].urls = answers,
                                       ![n].outcome = "stale"]
               ELSE /\ Continue("upload")
                    /\ uploadLog' = [uploadLog EXCEPT ![n].urls = answers]
            /\ UNCHANGED <<segment_last_frame_url, last_frame_url, accepted,
                           vid_idx>>
  /\ UNCHANGED <<args, scenes, i, video_durations, scene_start_image_url,
                 scene_videos, scene_video_files,
                 first_frame_of_first_scene_url, sound_effect_files,
                 narration_audio_path, final_clips, renders, planned,
                 extractions, narration, assembly,
                 assembled, rendervars, procvars>>

\* one turn of the upload retry loop, with the test that follows the loop
UploadAttempt ==
  /\ pc = "upload"
  /\ retry_count < max_retries
  /\ \E new_frame_url \in UploadAnswers :
       LET n == Len(uploadLog)
           answers == Append(uploadLog[n].urls, new_frame_url)
       IN
       IF UploadAccepted(new_frame_url, segment_last_frame_url)
       THEN /\ IF IsLastVideo(vid_idx, video_durations)
               THEN /\ last_frame_url' = new_frame_url
                    /\ UNCHANGED segment_last_frame_url
               ELSE /\ segment_last_frame_url' = new_frame_url
                    /\ UNCHANGED last_frame_url
            /\ accepted' = Append(accepted,
                 [scene |-> i, seg |-> vid_idx, url |-> new_frame_url,
                  last |-> IsLastVideo(vid_idx, video_durations)])
            /\ uploadLog' = [uploadLog EXCEPT ![n].urls = answers,
                               ![n].outcome = "ready", ![n].token = new_frame_url]
            /\ Continue(AfterSegment)
            /\ vid_idx' = NextVidIdx
            /\ UNCHANGED retry_count
       ELSE /\ retry_count' = retry_count + 1
            /\ IF retry_count + 1 = max_retries
               THEN /\ Raised("UploadStalenessError")
                    /\ uploadLog' = [uploadLog EXCEPT ![n].urls = answers,
                                       ![n].outcome = "stale"]
               ELSE /\ Continue("upload")
                    /\ uploadLog' = [uploadLog EXCEPT ![n].urls = answers]
            /\ UNCHANGED <<segment_last_frame_url, last_frame_url, accepted,
                           vid_idx>>
  /\ UNCHANGED <<args, scenes, i, video_durations, scene_start_image_url,
                 scene_videos, scene_video_files,
                 first_frame_of_first_scene_url, sound_effect_files,
                 narration_audio_path, final_clips, renders, planned,
                 extractions, narration, assembly,
                 assembled, rendervars, procvars>>

\* StitchScene without the single-segment branch: every scene goes through
\* concatenate_videoclips
StitchScene_AlwaysConcatenate ==
  /\ pc = "stitch"
  /\ \E ok \in BOOLEAN :
       IF ok
       THEN /\ scene_video_files' = Append(scene_video_files,
                 [scene |-> i, parts |-> scene_videos,
                  how |-> "concatenate"])
            /\ IF i + 1 < Len(scenes)
               THEN /\ i' = i + 1
                    /\ Continue("scene")
               ELSE /\ UNCHANGED i
                    /\ Continue("assemble")
       ELSE /\ Raised("StitchError")
            /\ UNCHANGED <<scene_video_files, i>>
  /\ UNCHANGED <<args, scenes, vid_idx, video_durations,
                 scene_start_image_url, segment_last_frame_url, last_frame_url,
                 retry_count, scene_videos, first_frame_of_first_scene_url,
                 sound_effect_files, narration_audio_path, final_clips,
                 history, narration, assembly,
                 assembled, rendervars, procvars>>

\* Scene Stitcher: several segments are concatenated, a single one is copied
StitchScene ==
  /\ pc = "stitch"
  /\ \E ok \in BOOLEAN :
       IF ok
       THEN /\ scene_video_files' = Append(scene_video_files,
                 [scene |-> i, parts |-> scene_videos,
                  how |-> IF Len(scene_videos) > 1 THEN "concatenate" ELSE "copy"])
            /\ IF i + 1 < Len(scenes)
               THEN /\ i' = i + 1
                    /\ Continue("scene")
               ELSE /\ UNCHANGED i
                    /\ Continue("assemble")
       ELSE /\ Raised("StitchError")
            /\ UNCHANGED <<scene_video_files, i>>
  /\ UNCHANGED <<args, scenes, vid_idx, video_durations,
                 scene_start_image_url, segment_last_frame_url, last_frame_url,
                 retry_count, scene_videos, first_frame_of_first_scene_url,
                 sound_effect_files, narration_audio_path, final_clips,
                 history, narration, assembly,
                 assembled, rendervars, procvars>>

(* ---------------------------- Final Assembler --------------------------- *)
\* sound_effect_files or [None] * len(video_files): None, and the empty
\* list, stand for a list of None
SoundArg(video_files, sound_files) ==
  IF sound_files = <<>> THEN [k \in 1..Len(video_files) |-> "None"]
  ELSE sound_files

Min(a, b) == IF a <= b THEN a ELSE b

\* ClipsLoop with each clip put in front of the list instead of appended
RECURSIVE ClipsLoop_Prepend(_, _, _, _, _)
ClipsLoop_Prepend(k, clips, video_files, sound_files, env) ==
  IF k > Min(Len(video_files), Len(sound_files)) THEN clips
  ELSE IF k \in env.loadFail
       THEN ClipsLoop_Prepend(k + 1, clips, video_files, sound_files, env)
       ELSE ClipsLoop_Prepend(k + 1,
              <<[scene |-> video_files[k].scene,
                 audio |-> /\ sound_files[k] = "file"
                           /\ k \notin env.missing
                           /\ k \notin env.audioFail]>> \o clips,
              video_files, sound_files, env)

\* ClipsLoop with the sound-effect failure handled by the outer except: the
\* scene is skipped like one whose video does not load
RECURSIVE ClipsLoop_AudioFailDrops(_, _, _, _, _)
ClipsLoop_AudioFailDrops(k, clips, video_files, sound_files, env) ==
  IF k > Min(Len(video_files), Len(sound_files)) THEN clips
  ELSE IF k \in env.loadFail \/ k \in env.audioFail
       THEN ClipsLoop_AudioFailDrops(k + 1, clips, video_files, sound_files, env)
       ELSE ClipsLoop_AudioFailDrops(k + 1,
              Append(clips,
                [scene |-> video_files[k].scene,
                 audio |-> /\ sound_files[k] = "file"
                           /\ k \notin env.missing]),
              video_files, sound_files, env)

\* ClipsLoop with the append inside the "if sound_file and exists" branch:
\* a scene without a sound-effect file is left out
RECURSIVE ClipsLoop_NeedsSound(_, _, _, _, _)
ClipsLoop_NeedsSound(k, clips, video_files, sound_files, env) ==
  IF k > Min(Len(video_files), Len(sound_files)) THEN clips
  ELSE IF k \in env.loadFail \/ sound_files[k] # "file" \/ k \in env.missing
       THEN ClipsLoop_NeedsSound(k + 1, clips, video_files, sound_files, env)
       ELSE ClipsLoop_NeedsSound(k + 1,
              Append(clips,
                [scene |-> video_files[k].scene,
                 audio |-> k \notin env.audioFail]),
              video_files, sound_files, env)

\* The for loop of the Final Assembler from the k-th pair of the zip on, clips
\* being final_clips so far.  env says what the loop meets: the scene videos
\* that do not load, the sound-effect paths that do not exist, the sound
\* effects that cannot be processed.  A video that does not load is skipped
\* by "continue"; a sound effect that is None, missing or unprocessable
\* leaves the video clip as it was loaded, and the clip is appended.
RECURSIVE ClipsLoop(_, _, _, _, _)
ClipsLoop(k, clips, video_files, sound_files, env) ==
  IF k > Min(Len(video_files), Len(sound_files)) THEN clips
  ELSE IF k \in env.loadFail
       THEN ClipsLoop(k + 1, clips, video_files, sound_files, env)
       ELSE ClipsLoop(k + 1,
              Append(clips,
                [scene |-> video_files[k].scene,
                 audio |-> /\ sound_files[k] = "file"
                           /\ k \notin env.missing
                           /\ k \notin env.audioFail]),
              video_files, sound_files, env)

\* final_clips when the loop is over
ClipsOf(video_files, sound_files, env) ==
  ClipsLoop(1, <<>>, video_files, SoundArg(video_files, sound_files), env)

\* the positions of video_files whose sound-effect entry is a path
WithSoundFile(video_files, sound_files) ==
  {k \in 1..Len(video_files) : SoundArg(video_files, sound_files)[k] = "file"}

\* FinalAssemble without the "if not final_clips" test: the empty list is
\* concatenated and written like any other
FinalAssemble_NoEmptyTest ==
  /\ pc = "assemble"
  /\ assembled' = TRUE
  /\ \E loadFail \in SUBSET (1..Len(scene_video_files)) :
     \E missing \in SUBSET (WithSoundFile(scene_video_files, sound_effect_files)
                              \ loadFail) :
     \E audioFail \in SUBSET ((WithSoundFile(scene_video_files, sound_effect_files)
                                 \ loadFail) \ missing) :
     \E mixed \in (IF narration_audio_path = "file" THEN BOOLEAN ELSE {FALSE}) :
       LET env == [loadFail |-> loadFail, missing |-> missing,
                   audioFail |-> audioFail]
       IN
       /\ final_clips' = ClipsOf(scene_video_files, sound_effect_files, env)
       /\ assembly' = [loadFail |-> loadFail, missing |-> missing,
                       audioFail |-> audioFail, narration |-> mixed,
                       written |-> TRUE]
       /\ pc' = "done"
       /\ result' = [value |-> IF entry = "generate_video"
                               THEN "metadata" ELSE "returned",
                     path |-> "final"]
       /\ UNCHANGED <<error, errAt>>
  /\ UNCHANGED <<args, scenes, loopvars, first_frame_of_first_scene_url,
                 sound_effect_files, narration_audio_path, history, narration,
                 rendervars, procvars>>

\* stitch_videos / VideoGenerator.stitch_final_video
FinalAssemble ==
  /\ pc = "assemble"
  /\ assembled' = TRUE
  /\ \E loadFail \in SUBSET (1..Len(scene_video_files)) :
     \E missing \in SUBSET (WithSoundFile(scene_video_files, sound_effect_files)
                              \ loadFail) :
     \E audioFail \in SUBSET ((WithSoundFile(scene_video_files, sound_effect_files)
                                 \ loadFail) \ missing) :
       LET env == [loadFail |-> loadFail, missing |-> missing,
                   audioFail |-> audioFail]
           clips == ClipsOf(scene_video_files, sound_effect_files, env)
       IN
       /\ final_clips' = clips
       /\ IF clips = <<>>
          THEN /\ Raised("NoRenderableContent")
               /\ assembly' = [NoAssembly EXCEPT !.loadFail = loadFail]
          ELSE \E mixed \in (IF narration_audio_path = "file" THEN BOOLEAN ELSE {FALSE}) :
                 /\ assembly' = [loadFail |-> loadFail, missing |-> missing,
                                 audioFail |-> audioFail, narration |-> mixed,
                                 written |-> TRUE]
                 /\ pc' = "done"
                 /\ result' = [value |-> IF entry = "generate_video"
                                         THEN "metadata" ELSE "returned",
                               path |-> "final"]
                 /\ UNCHANGED <<error, errAt>>
  /\ UNCHANGED <<args, scenes, loopvars, first_frame_of_first_scene_url,
                 sound_effect_files, narration_audio_path, history, narration,
                 rendervars, procvars>>

(* ------------------- the audio attachment, on its own ------------------- *)
\* every variable of the scene pipeline before a run has touched it
PipelineAtRest ==
  /\ video_engine = "luma"
  /\ entry = "direct"
  /\ lora_in_first_frame_mode = FALSE
  /\ metadata_only = FALSE
  /\ skip_narration = TRUE
  /\ skip_sound_effects = TRUE
  /\ scenes = <<>>
  /\ i = 0
  /\ vid_idx = 0
  /\ video_durations = <<>>
  /\ first_frame_of_first_scene_url = NoURL
  /\ scene_start_image_url = NoURL
  /\ segment_last_frame_url = NoURL
  /\ last_frame_url = NoURL
  /\ retry_count = 0
  /\ scene_videos = <<>>
  /\ scene_video_files = <<>>
  /\ sound_effect_files = <<>>
  /\ narration_audio_path = "None"
  /\ final_clips = <<>>
  /\ result = NoResult
  /\ error = "none"
  /\ errAt = [scene |-> 0, seg |-> 0]
  /\ renders = <<>>
  /\ accepted = <<>>
  /\ uploadLog = <<>>
  /\ planned = <<>>
  /\ extractions = <<>>
  /\ narration = "not_run"
  /\ assembly = NoAssembly
  /\ assembled = FALSE
  /\ generation_state = "none"
  /\ polls = 0
  /\ video_file = "absent"

pipeline == <<args, scenes, loopvars, first_frame_of_first_scene_url,
              sound_effect_files, narration_audio_path, final_clips, result,
              error, errAt, history, narration, assembly, assembled,
              rendervars>>

\* AttachSound with a short sound effect left as it is: the video keeps
\* its length
AttachSound_KeepVideo(video_duration, audio_duration) ==
  IF audio_duration > video_duration
  THEN [video |-> video_duration, audio |-> video_duration,
        trimmed |-> "audio"]
  ELSE [video |-> video_duration, audio |-> audio_duration,
        trimmed |-> "none"]

\* The body of "if sound_file and os.path.exists(sound_file)": the longer of
\* the two clips is cut with subclip(0, the shorter duration) and the sound
\* effect becomes the audio of the video clip.
AttachSound(video_duration, audio_duration) ==
  IF audio_duration > video_duration
  THEN [video |-> video_duration, audio |-> video_duration,
        trimmed |-> "audio"]
  ELSE IF audio_duration < video_duration
  THEN [video |-> audio_duration, audio |-> audio_duration,
        trimmed |-> "video"]
  ELSE [video |-> video_duration, audio |-> audio_duration,
        trimmed |-> "none"]

\* one scene video and one sound effect of any two lengths
InitAttach ==
  /\ impl \in Impls
  /\ pc = "attach"
  /\ PipelineAtRest
  /\ attach \in [video : 1..MaxDuration, audio : 1..MaxDuration,
                  clip : {<<>>}]
  /\ clock = 0
  /\ timestamp = 0
  /\ run = 1
  /\ written = {}

\* one turn of the loop of stitch_videos for a scene with a sound effect: the
\* sound effect loads and is attached, or it does not load and the video
\* clip goes on without audio
AttachSoundEffect ==
  /\ pc = "attach"
  /\ \E loaded \in BOOLEAN :
       attach' = [attach EXCEPT !.clip =
                    IF loaded
                    THEN <<AttachSound(attach.video, attach.audio)>>
                    ELSE <<[video |-> attach.video, audio |-> 0,
                            trimmed |-> "none"]>>]
  /\ pc' = "attached"
  /\ UNCHANGED <<pipeline, clock, timestamp, run, written>>

NextAttach == AttachSoundEffect

SpecAttach == InitAttach /\ [][NextAttach]_vars

(* ------------------ several runs in one process ------------------------ *)
\* generated_videos/video_{timestamp}: the working directory named by a run
\* identifier
video_dir(ts) == ts

\* a file of the given kind written by the current run: its directory and
\* its name are made from the run identifier in use
File(kind) == [kind |-> kind, video_dir |-> video_dir(timestamp), run |-> run]

\* The process has imported the pipeline.  The reference computes timestamp
\* and video_dir once, as module globals, at import; the package has no
\* identifier before a generator object is made.
InitRuns ==
  /\ impl \in Impls
  /\ pc = "idle"
  /\ PipelineAtRest
  /\ attach = NoAttach
  /\ clock = 0
  /\ timestamp = (IF impl = "ref" THEN clock ELSE -1)
  /\ run = 0
  /\ written = {}

\* a second goes by
Tick ==
  /\ clock < MaxClock
  /\ clock' = clock + 1
  /\ UNCHANGED <<pipeline, pc, attach, timestamp, run, written>>

\* generate_video is called: the package makes a SceneGenerator, whose
\* constructor reads the clock; the reference reads the module globals
StartRun ==
  /\ pc = "idle"
  /\ run < MaxRuns
  /\ run' = run + 1
  /\ timestamp' = (IF impl = "pkg" THEN clock ELSE timestamp)
  /\ pc' = "metadata"
  /\ UNCHANGED <<pipeline, attach, clock, written>>

\* where a run goes after writing a file of the given kind; the package ends
\* after the scene metadata, in the constructor of the next generator
AfterFile(kind) ==
  IF kind = "metadata" THEN (IF impl = "pkg" THEN "idle" ELSE "scene_video")
  ELSE IF kind = "scene_video" THEN "frame"
  ELSE IF kind = "frame" THEN "final_video"
  ELSE "idle"

\* the run writes its next file: scene metadata, a scene video, a last
\* frame, the final video
WriteFile ==
  /\ pc \in {"metadata", "scene_video", "frame", "final_video"}
  /\ written' = written \cup {File(pc)}
  /\ pc' = AfterFile(pc)
  /\ UNCHANGED <<pipeline, attach, clock, timestamp, run>>

\* the run ends early with an exception
RunFails ==
  /\ pc \in {"metadata", "scene_video", "frame", "final_video"}
  /\ pc' = "idle"
  /\ UNCHANGED <<pipeline, attach, clock, timestamp, run, written>>

NextRuns == Tick \/ StartRun \/ WriteFile \/ RunFails

SpecRuns == InitRuns /\ [][NextRuns]_vars

(* ---------------------------- specification ---------------------------- *)
Next ==
  \/ ValidateArgs
  \/ PlanScenes
  \/ Narration
  \/ SoundEffectsPkg
  \/ ConstructVideoGenerator
  \/ DirectCall
  \/ InitialImage
  \/ PlanSegments
  \/ SoundEffect
  \/ LoraFirstFrame
  \/ RenderSubmit
  \/ RenderPoll
  \/ RenderFinish
  \/ ExtractLastFrame
  \/ UploadAttempt
  \/ StitchScene
  \/ FinalAssemble

Spec == Init /\ [][Next]_vars

TypeOK ==
  /\ pc \in {"entry", "plan", "narration", "sound_pkg", "construct", "prelude",
             "scene", "sound", "lora", "render", "rendering", "extract",
             "upload", "stitch", "assemble", "done"}
  /\ i \in 0..MaxScenes
  /\ vid_idx \in 0..2
  /\ retry_count \in 0..max_retries
  /\ segment_last_frame_url \in UploadURLs \cup {NoURL}
  /\ last_frame_url \in UploadURLs \cup {NoURL}
  /\ Len(scenes) <= MaxScenes
  /\ narration \in {"not_run", "text_failed", "audio_failed", "ok"}
  /\ assembly.loadFail \subseteq 1..MaxScenes
  /\ assembly.missing \subseteq 1..MaxScenes
  /\ assembly.audioFail \subseteq 1..MaxScenes
  /\ assembly.narration \in BOOLEAN /\ assembly.written \in BOOLEAN
  /\ generation_state \in {"none", "dreaming", "completed", "failed"}
  /\ polls \in 0..MaxPolls
  /\ video_file \in {"absent", "empty", "video"}
  /\ attach = NoAttach
  /\ run = 1 /\ written = {}

(* ------------------------------- claims -------------------------------- *)
Renders == {renders[n] : n \in 1..Len(renders)}
Accepted == {accepted[n] : n \in 1..Len(accepted)}

\* the accepted uploads of the final segment of scene sc
FinalAccepted(sc) == {a \in Accepted : a.scene = sc /\ a.last}

\* C1, as stated: in every mode the first segment of a non-first scene starts
\* from exactly the URL accepted for the last frame of the previous scene's
\* final segment.
C1_CrossSceneStartInEveryMode ==
  \A r \in Renders :
    (r.seg = 1 /\ r.scene > 0) =>
      \A a \in FinalAccepted(r.scene - 1) : r.url = a.url

\* C1, amended: when no LoRA first frame was generated for a non-first scene
\* and the upload of the previous scene's final last frame was accepted, the
\* first segment starts from exactly that URL, read from the cross-scene
\* token; when a LoRA first frame was generated, it starts from that frame.
C1_CrossSceneStart ==
  \A r \in Renders :
    (r.seg = 1 /\ r.scene > 0) =>
      /\ r.lora = NoURL =>
           \A a \in FinalAccepted(r.scene - 1) :
             r.url = a.url /\ r.src = "cross"
      /\ r.lora # NoURL => r.url = r.lora

C1_Witness ==
  \E r \in Renders :
    /\ r.seg = 1 /\ r.scene > 0 /\ r.lora = NoURL /\ r.src = "cross"
    /\ \E a \in FinalAccepted(r.scene - 1) : r.url = a.url
    /\ lora_in_first_frame_mode

\* C2: every segment after the first of a scene starts from the URL accepted
\* for the last frame of the preceding segment of the same scene, read from
\* the within-scene token.
C2_WithinSceneStart ==
  \A r \in Renders :
    r.seg > 1 =>
      /\ r.src = "within"
      /\ \E a \in Accepted :
           a.scene = r.scene /\ a.seg = r.seg - 1 /\ a.url = r.url

\* C3: a continuity-token URL is the start frame of at most one render call.
C3_SingleOwner ==
  \A n, m \in 1..Len(renders) :
    (/\ n # m
     /\ renders[n].src \in {"cross", "within"}
     /\ renders[m].src \in {"cross", "within"})
    => renders[n].url # renders[m].url

\* C4: an upload answer equal to the URL of the immediately preceding accepted
\* upload is never accepted, whichever slot that URL was stored in.
C4_PreviousUploadNeverAccepted ==
  \A n \in 2..Len(accepted) : accepted[n].url # accepted[n - 1].url

\* C5: per extracted frame at most 3 uploads; the frame becomes Ready with
\* the first answer that differs from the held token, all earlier answers
\* being equal to it, and that answer is the published token; the run fails
\* with UploadStalenessError exactly when 3 answers equalled the held token.
C5_UploadRetry ==
  \A n \in 1..Len(uploadLog) :
    LET f == uploadLog[n]
        k == Len(f.urls)
    IN
    /\ k <= 3
    /\ \A j \in 1..(k - 1) : f.urls[j] = f.held
    /\ f.outcome = "ready" =>
         /\ k >= 1 /\ f.urls[k] # f.held /\ f.token = f.urls[k]
         /\ \E a \in Accepted :
              a.scene = f.scene /\ a.seg = f.seg /\ a.url = f.token
    /\ f.outcome = "stale" =>
         /\ k = 3 /\ f.urls[k] = f.held
         /\ error = "UploadStalenessError"
         /\ ~ \E a \in Accepted : a.scene = f.scene /\ a.seg = f.seg
    /\ f.outcome = "pending" =>
         /\ k < 3
         /\ (k >= 1 => f.urls[k] = f.held)
         /\ (n = Len(uploadLog) => pc = "upload")

\* a frame accepted on its third upload, and a later frame that went stale
C5_Witness ==
  /\ \E n \in 1..Len(uploadLog) :
       /\ uploadLog[n].outcome = "ready"
       /\ Len(uploadLog[n].urls) = 3
       /\ uploadLog[n].urls[1] = uploadLog[n].urls[2]
  /\ \E n \in 1..Len(uploadLog) :
       /\ uploadLog[n].outcome = "stale"
       /\ Len(uploadLog[n].urls) = 3

\* the nominal durations each engine offers to the Scene Planning Service
AllowedDurations(engine) ==
  IF engine = "luma" THEN {5, 9, 14, 18} ELSE {5, 10}

Planned == {planned[n] : n \in 1..Len(planned)}

\* C6: for a nominal duration of the engine's allowed set the Segment Planner
\* answers a non-empty list of segment durations that sums to it.
C6_PlanSumsToDuration ==
  \A p \in Planned :
    p.duration \in AllowedDurations(video_engine) =>
      p.ok /\ p.list # <<>> /\ SumSeq(p.list) = p.duration

\* C7: for a duration outside the engine's lookup table the Segment Planner
\* fails and no segment list is used.
C7_UnknownDurationFails ==
  \A p \in Planned :
    p.duration \notin AllowedDurations(video_engine) =>
      ~p.ok /\ error = "UnsupportedDuration"

\* (scene, segment) of a render call lies after the place of the error
After(r, at) == r.scene > at.scene \/ (r.scene = at.scene /\ r.seg > at.seg)

HaltingErrors == {"RenderError", "UploadStalenessError", "StitchError"}

\* C8: after a render failure, an exhausted frame upload or a stitch failure
\* the run is over: no render call for a later segment or scene exists, the
\* Final Assembler was not invoked and no final video path is returned.
C8_FailureHaltsRun ==
  error \in HaltingErrors =>
    /\ pc = "done"
    /\ \A r \in Renders : ~After(r, errAt)
    /\ ~assembled
    /\ final_clips = <<>>
    /\ result.path = "None"
    /\ result.value \in {"error", "raised"}

\* a failure with a later scene still to come
C8_Witness ==
  /\ error \in HaltingErrors
  /\ errAt.scene + 1 < Len(scenes)
  /\ renders # <<>>

Extractions == {extractions[n] : n \in 1..Len(extractions)}

\* C9: a last frame that cannot be extracted ends the run with DecodeError:
\* no upload is made for that frame, no later segment or scene is rendered,
\* and no final video is returned.
C9_DecodeFailureHaltsRun ==
  \A e \in Extractions :
    e.outcome # "frame" =>
      /\ error = "DecodeError" /\ pc = "done"
      /\ \A n \in 1..Len(uploadLog) :
           ~(uploadLog[n].scene = e.scene /\ uploadLog[n].seg = e.seg)
      /\ \A r \in Renders : ~After(r, e)
      /\ ~assembled
      /\ result.path = "None"

\* C10: generate_video never lets an exception out: it hands back
\* (metadata, path) when nothing raised and (error message, None) when
\* something did; a path is handed back only after the Final Assembler has
\* produced the final video from every planned scene's video, so planning
\* alone (metadata_only, or any state before the assembly) yields no path.
C10_GenerateVideoResult ==
  /\ pc # "done" => result = NoResult
  /\ result.path # "None" =>
       /\ assembled /\ final_clips # <<>>
       /\ error = "none" /\ ~metadata_only
       /\ Len(scene_video_files) = Len(scenes)
  /\ (entry = "generate_video" /\ pc = "done") =>
       /\ result.value \in {"metadata", "error"}
       /\ error # "none" => result = [value |-> "error", path |-> "None"]
       /\ error = "none" =>
            /\ result.value = "metadata"
            /\ result.path = (IF metadata_only THEN "None" ELSE "final")

\* a run through generate_video that returned the final video
C10_Witness ==
  /\ entry = "generate_video" /\ pc = "done"
  /\ result = [value |-> "metadata", path |-> "final"]
  /\ Len(scenes) = MaxScenes

\* the narration stage was entered and did not produce an audio track
NarrationFailed == narration \in {"text_failed", "audio_failed"}

\* C11: a failure of narration text generation or of narration speech
\* synthesis only switches narration off: it is not the error that ends the
\* run, and a run that meets no other failure returns a final video that
\* carries no narration.
C11_NarrationFailureIsolated ==
  NarrationFailed =>
    /\ error # "NarrationTextError"
    /\ narration_audio_path = "None"
    /\ (pc = "done" /\ error = "none") =>
         /\ result.path = "final"
         /\ ~assembly.narration

\* the scenes the Segment Planner has accepted so far
PlannedOk == SelectSeq(planned, LAMBDA p : p.ok)

\* C12: in the reference every scene that passed the Segment Planner gets
\* exactly one sound-effect entry, None when synthesis failed or was skipped,
\* before its first render; a None entry ends nothing: the entry count keeps
\* step with the scenes entered, and when the scene loop has returned the
\* list has one entry per scene, the k-th entry and the k-th scene video
\* belonging to the k-th scene.
C12_SoundEffectPerScene ==
  impl = "ref" =>
    /\ Len(sound_effect_files) =
         Len(PlannedOk) - (IF pc = "sound" THEN 1 ELSE 0)
    /\ skip_sound_effects =>
         \A k \in 1..Len(sound_effect_files) : sound_effect_files[k] = "None"
    /\ \A r \in Renders : r.scene + 1 <= Len(sound_effect_files)
    /\ Len(scene_video_files) <= Len(sound_effect_files)
    /\ \A k \in 1..Len(scene_video_files) : scene_video_files[k].scene = k - 1
    /\ (pc = "assemble" \/ assembled) =>
         /\ Len(sound_effect_files) = Len(scenes)
         /\ Len(scene_video_files) = Len(scenes)

\* synthesis failed for the first scene and succeeded for the second, and
\* both scenes were rendered and assembled
C12_Witness ==
  /\ impl = "ref" /\ ~skip_sound_effects
  /\ sound_effect_files = <<"None", "file">>
  /\ \E r \in Renders : r.scene = 0
  /\ \E r \in Renders : r.scene = 1
  /\ Len(scene_video_files) = 2
  /\ result.path = "final"

\* the plan carries a scene duration outside the engine's allowed set
InvalidPlan ==
  \E k \in 1..Len(scenes) : scenes[k] \notin AllowedDurations(video_engine)

\* C13: a plan with a duration outside the engine's allowed set is refused
\* before anything is done for any scene: no render call, no frame upload,
\* no narration speech synthesis and no sound-effect synthesis is issued
\* for it.
C13_InvalidPlanFailsFast ==
  InvalidPlan =>
    /\ renders = <<>>
    /\ uploadLog = <<>>
    /\ narration \notin {"audio_failed", "ok"}
    /\ ~skip_sound_effects => sound_effect_files = <<>>

\* the scenes of the clips the Final Assembler concatenated
ClipScenes == {final_clips[k].scene : k \in 1..Len(final_clips)}

\* the positions of the scene-video list whose video loaded
Loaded == (1..Len(scene_video_files)) \ assembly.loadFail

\* C14: the clips of the final video are the scene videos that loaded, each
\* once, in the order of the scene-video list, which is scene order.
C14_FinalOrder ==
  assembled =>
    /\ \A k \in 1..(Len(scene_video_files) - 1) :
         scene_video_files[k].scene < scene_video_files[k + 1].scene
    /\ \A k \in 1..(Len(final_clips) - 1) :
         final_clips[k].scene < final_clips[k + 1].scene
    /\ ClipScenes = {scene_video_files[k].scene : k \in Loaded}
    /\ Len(final_clips) = Cardinality(Loaded)

\* two scenes assembled, both loaded
C14_Witness ==
  /\ assembled
  /\ Len(final_clips) = 2
  /\ final_clips[1].scene = 0 /\ final_clips[2].scene = 1
  /\ result.path = "final"

\* C15, as stated: a scene whose sound effect cannot be processed during the
\* final assembly does not appear in the final video.
C15_AudioFailureDropsScene ==
  assembled =>
    \A k \in assembly.audioFail :
      scene_video_files[k].scene \notin ClipScenes

\* C15, amended: a scene whose sound effect cannot be processed during the
\* final assembly stays in the final video, in its place, without a sound
\* effect.
C15_AudioFailureKeepsScene ==
  assembled =>
    \A k \in assembly.audioFail :
      /\ sound_effect_files[k] = "file"
      /\ \E n \in 1..Len(final_clips) :
           /\ final_clips[n].scene = scene_video_files[k].scene
           /\ ~final_clips[n].audio
           /\ n = Cardinality({j \in Loaded : j <= k})

\* the sound effect of the second of two scenes could not be processed
C15_Witness ==
  /\ assembled
  /\ assembly.audioFail = {2}
  /\ Len(final_clips) = 2
  /\ final_clips[1].audio
  /\ result.path = "final"

\* C16: when every scene video fails to load the Final Assembler raises
\* before it writes anything, and the run hands back no path: an error
\* message under generate_video, the exception itself in a direct call.
C16_NoRenderableContent ==
  (assembled /\ Loaded = {}) =>
    /\ error = "NoRenderableContent"
    /\ final_clips = <<>>
    /\ ~assembly.written
    /\ pc = "done"
    /\ result = [value |-> IF entry = "generate_video" THEN "error" ELSE "raised",
                 path |-> "None"]

\* two rendered scenes, neither of which loads, in a run of generate_video
C16_Witness ==
  /\ assembled
  /\ Len(scene_video_files) = 2
  /\ assembly.loadFail = {1, 2}
  /\ entry = "generate_video"
  /\ result = [value |-> "error", path |-> "None"]

\* the positions whose sound-effect entry is None or names no existing file
WithoutSound ==
  {k \in 1..Len(scene_video_files) :
     \/ SoundArg(scene_video_files, sound_effect_files)[k] = "None"
     \/ k \in assembly.missing}

\* C17: a scene whose sound-effect entry is None or a path that does not
\* exist is in the final video whenever its video loads, without a sound
\* effect, next to the scenes that have one; one final video is written.
C17_ScenesWithoutSoundKept ==
  assembled =>
    /\ \A k \in WithoutSound \cap Loaded :
         \E n \in 1..Len(final_clips) :
           /\ final_clips[n].scene = scene_video_files[k].scene
           /\ ~final_clips[n].audio
    /\ Loaded # {} => assembly.written /\ result.path = "final"

\* one scene with its sound effect attached, the other with a sound-effect
\* path that does not exist
C17_Witness ==
  /\ assembled
  /\ sound_effect_files = <<"file", "file">>
  /\ assembly.missing = {2}
  /\ Len(final_clips) = 2
  /\ final_clips[1].audio /\ ~final_clips[2].audio
  /\ result.path = "final"

\* C18: the scene-video list holds one video per finished scene, in scene
\* order; the video of a scene planned as one segment is a copy of that
\* segment, and the video of a scene planned as N > 1 segments is the
\* concatenation of its N segment videos in segment order.
C18_SceneStitcher ==
  /\ Len(scene_video_files) <= Len(PlannedOk)
  /\ pc \in {"scene", "assemble"} => Len(scene_video_files) = Len(PlannedOk)
  /\ \A k \in 1..Len(scene_video_files) :
       LET v == scene_video_files[k]
           plan == PlannedOk[k]
       IN
       /\ v.scene = k - 1 /\ plan.scene = k - 1
       /\ Len(v.parts) = Len(plan.list)
       /\ \A j \in 1..Len(v.parts) : v.parts[j] = [scene |-> k - 1, seg |-> j]
       /\ v.how = (IF Len(plan.list) = 1 THEN "copy" ELSE "concatenate")

\* a one-segment scene copied and a two-segment scene concatenated
C18_Witness ==
  /\ Len(scene_video_files) = 2
  /\ scene_video_files[1].how = "copy"
  /\ scene_video_files[2].how = "concatenate"
  /\ Len(scene_video_files[2].parts) = 2

\* the render calls that start from a token of the given slot
StartedFrom(slot) == {n \in 1..Len(renders) : renders[n].src = slot}

\* the accepted uploads stored in the cross-scene slot (last) or in the
\* within-scene slot
StoredIn(last) == {n \in 1..Len(accepted) : accepted[n].last = last}

\* the end-to-end scenario: two scenes of 5 and 14 seconds on Luma, the run
\* finished with the final video, every external call having succeeded
C19_Scenario ==
  /\ video_engine = "luma" /\ scenes = <<5, 14>>
  /\ pc = "done" /\ error = "none" /\ result.path = "final"
  /\ \A e \in Extractions : e.outcome = "frame"
  /\ \A n \in 1..Len(uploadLog) : Len(uploadLog[n].urls) = 1
  /\ lora_in_first_frame_mode =>
       \A r \in Renders : r.seg = 1 => r.lora # NoURL
  /\ narration \in {"not_run", "ok"}
  /\ ~skip_sound_effects =>
       \A k \in 1..Len(sound_effect_files) : sound_effect_files[k] = "file"
  /\ assembly.loadFail = {} /\ assembly.missing = {} /\ assembly.audioFail = {}

\* what the scenario yields apart from the token counts: the plan
\* [[5], [5, 9]], three render calls, and a final video of scene 1 followed
\* by scene 2, the latter stitched from its segments 1 and 2
C19_PlanRendersOrder ==
  /\ Len(planned) = 2
  /\ planned[1].list = <<5>> /\ planned[2].list = <<5, 9>>
  /\ Len(renders) = 3
  /\ [n \in 1..3 |-> <<renders[n].scene, renders[n].seg>>]
       = <<(<<0, 1>>), (<<1, 1>>), (<<1, 2>>)>>
  /\ Len(final_clips) = 2
  /\ final_clips[1].scene = 0 /\ final_clips[2].scene = 1
  /\ scene_video_files[1].parts = <<[scene |-> 0, seg |-> 1]>>
  /\ scene_video_files[2].parts =
       <<[scene |-> 1, seg |-> 1], [scene |-> 1, seg |-> 2]>>
  /\ scene_video_files[2].how = "concatenate"

\* C19, as stated: in the scenario exactly 2 continuity tokens are
\* transferred across the scene boundary and exactly 1 within scene 2.
C19_TwoTokensAcrossBoundary ==
  C19_Scenario =>
    /\ C19_PlanRendersOrder
    /\ Cardinality(StartedFrom("cross")) = 2
    /\ Cardinality(StartedFrom("within")) = 1

\* C19, amended: in the scenario three frame uploads are accepted, two
\* stored in the cross-scene slot (one per scene) and one in the
\* within-scene slot; exactly 1 token is transferred within scene 2, and
\* exactly 1 across the scene boundary, or none when the first segment of
\* scene 2 starts from a LoRA first frame; the token stored after the last
\* segment of scene 2 starts no render.
C19_EndToEnd ==
  C19_Scenario =>
    /\ C19_PlanRendersOrder
    /\ Len(accepted) = 3
    /\ Cardinality(StoredIn(TRUE)) = 2
    /\ Cardinality(StoredIn(FALSE)) = 1
    /\ Cardinality(StartedFrom("within")) = 1
    /\ Cardinality(StartedFrom("cross")) =
         (IF lora_in_first_frame_mode THEN 0 ELSE 1)
    /\ \A n \in StartedFrom("cross") : renders[n].scene = 1 /\ renders[n].seg = 1

\* the scenario in the reference, without LoRA first frames
C19_Witness ==
  /\ C19_Scenario
  /\ impl = "ref" /\ ~lora_in_first_frame_mode
  /\ Cardinality(StartedFrom("cross")) = 1

\* C20: with metadata_only set, generate_video stops right after scene
\* planning: it hands back (scene metadata, None), or the error message of
\* the argument check or of the planning, and no render, frame extraction,
\* frame upload, narration, sound-effect or final-assembly call is ever
\* issued.
C20_MetadataOnly ==
  (entry = "generate_video" /\ metadata_only) =>
    /\ pc \in {"entry", "plan", "done"}
    /\ renders = <<>> /\ extractions = <<>>
    /\ uploadLog = <<>> /\ accepted = <<>>
    /\ narration = "not_run" /\ narration_audio_path = "None"
    /\ sound_effect_files = <<>>
    /\ planned = <<>> /\ scene_video_files = <<>>
    /\ ~assembled /\ final_clips = <<>>
    /\ (pc = "done" /\ error = "none") =>
         /\ scenes # <<>>
         /\ result = [value |-> "metadata", path |-> "None"]
    /\ (pc = "done" /\ error # "none") =>
         /\ error \in {"ValueError", "PlanningError"}
         /\ result = [value |-> "error", path |-> "None"]

\* the package handing back the metadata of a two-scene plan
C20_Witness ==
  /\ impl = "pkg" /\ entry = "generate_video" /\ metadata_only
  /\ ~skip_narration
  /\ pc = "done"
  /\ Len(scenes) = 2
  /\ result = [value |-> "metadata", path |-> "None"]

slots == <<segment_last_frame_url, last_frame_url>>

\* C22: a slot receives a URL only in the step of an accepted upload attempt,
\* and the URL is the accepted one; a rejected attempt, with retries left or
\* with the loop exhausted, leaves both slots as they were; every render call
\* that continues from a slot carries the URL of an accepted attempt: the
\* accepted upload of the previous segment, or the accepted upload of the
\* final segment of an earlier scene.
C22_PublishedOnlyWhenAccepted ==
  /\ [][/\ (segment_last_frame_url' # segment_last_frame_url
            /\ segment_last_frame_url' # NoURL)
           => /\ pc = "upload"
              /\ Len(accepted') = Len(accepted) + 1
              /\ accepted'[Len(accepted')].url = segment_last_frame_url'
        /\ last_frame_url' # last_frame_url
           => /\ pc = "upload"
              /\ Len(accepted') = Len(accepted) + 1
              /\ accepted'[Len(accepted')].url = last_frame_url'
        /\ (pc = "upload" /\ accepted' = accepted) => UNCHANGED slots
       ]_vars
  /\ [](\A r \in Renders :
          /\ r.src = "within" =>
               \E a \in Accepted : /\ a.scene = r.scene /\ a.seg + 1 = r.seg
                                   /\ ~a.last /\ a.url = r.url
          /\ r.src = "cross" =>
               \E a \in Accepted : /\ a.scene < r.scene /\ a.last
                                   /\ a.url = r.url)

\* an upload was rejected and retried, its scene's last frame was published
\* on a later attempt and the next scene was rendered from it
C22_Witness ==
  \E n \in 1..Len(uploadLog) :
    /\ Len(uploadLog[n].urls) >= 2
    /\ uploadLog[n].outcome = "ready"
    /\ \E r \in Renders : /\ r.scene = uploadLog[n].scene + 1
                          /\ r.src = "cross"
                          /\ r.url = uploadLog[n].token

\* C23, as stated: the run never ends with RenderError while the last answer
\* of the render service was a pending state.
C23_NoTimeoutCeiling ==
  error = "RenderError" => generation_state # "dreaming"

\* C23: a luma segment is downloaded and decoded only after the service
\* reported completed; a failed answer raises RenderError; while the answers
\* stay pending the package loop never fails the segment, and the reference
\* loop fails it only through its timeout, after at least one pending answer.
C23_PollLoop ==
  /\ (video_engine = "luma" /\ pc \in {"extract", "upload"})
       => generation_state = "completed"
  /\ generation_state = "failed" => error = "RenderError" /\ pc = "done"
  /\ (error = "RenderError" /\ video_engine = "luma")
       => \/ generation_state \in {"failed", "completed"}
          \/ /\ generation_state = "dreaming" /\ impl = "ref" /\ polls >= 1
  /\ (impl = "pkg" /\ generation_state = "dreaming") => error = "none"

\* the package loop is still polling after every pending answer followed
C23_Witness ==
  /\ impl = "pkg"
  /\ pc = "rendering"
  /\ generation_state = "dreaming"
  /\ polls >= 2

\* C24: no segment is rendered twice and every render call is for a segment
\* of the plan; a render that failed or left no file ends the run with
\* RenderError at that segment, with no render call after it; a run that
\* returns a final video has issued one render call for every planned segment.
C24_OneRenderPerSegment ==
  /\ \A n \in 1..Len(renders) : \A m \in (n + 1)..Len(renders) :
       renders[n].scene # renders[m].scene \/ renders[n].seg # renders[m].seg
  /\ \A n \in 1..Len(renders) :
       /\ renders[n].scene < Len(planned)
       /\ LET p == planned[renders[n].scene + 1] IN
            /\ p.ok /\ p.scene = renders[n].scene
            /\ renders[n].seg \in 1..Len(p.list)
  /\ pc \in {"extract", "upload"} => video_file # "absent"
  /\ error = "RenderError" =>
       /\ pc = "done"
       /\ renders # <<>>
       /\ renders[Len(renders)].scene = errAt.scene
       /\ renders[Len(renders)].seg = errAt.seg
  /\ result.path = "final" =>
       \A p \in Planned : \A k \in 1..Len(p.list) :
         \E r \in Renders : r.scene = p.scene /\ r.seg = k

\* the second segment of a scene failed to render and the run is over
C24_Witness ==
  /\ error = "RenderError"
  /\ errAt.seg = 2
  /\ Len(renders) >= 2

\* C25: a segment counts as rendered (its path is in the scene's segment
\* list and the last-frame extraction has started) only with a video file
\* that exists and is not empty; a missing or empty file ends the run with
\* RenderError.
C25_RenderedFileChecked ==
  /\ pc = "extract" => video_file = "video"
  /\ video_file = "empty" => error = "RenderError" /\ pc = "done"
  /\ \A x \in Extractions :
       (x.scene = i /\ x.seg = vid_idx /\ pc = "done" /\ error = "DecodeError")
         => video_file = "video"

\* C26: a scene video with a sound effect attached lasts
\* min(video duration, audio duration): a longer sound effect is cut to the
\* video, a shorter one cuts the video, and equal lengths leave both alone.
C26_AttachedDuration ==
  (attach.clip # <<>> /\ attach.clip[1].audio > 0) =>
    LET c == attach.clip[1] IN
      /\ c.video = Min(attach.video, attach.audio)
      /\ c.audio = c.video
      /\ attach.audio > attach.video =>
           c.trimmed = "audio" /\ c.video = attach.video
      /\ attach.audio < attach.video =>
           c.trimmed = "video" /\ c.audio = attach.audio
      /\ attach.audio = attach.video => c.trimmed = "none"

\* a sound effect shorter than its scene video was attached
C26_Witness ==
  /\ attach.clip # <<>>
  /\ attach.clip[1].audio > 0
  /\ attach.audio < attach.video

\* C27: runs of one process have run identifiers and working directories of
\* their own: two files written by different runs are never in the same
\* directory, so no run writes a path an earlier run wrote.
C27_RunsShareNothing ==
  \A f, g \in written :
    f.run # g.run => f.video_dir # g.video_dir

\* the scene was planned as a single segment
SingleSegment(sc) ==
  sc < Len(planned) /\ planned[sc + 1].ok /\ Len(planned[sc + 1].list) = 1

\* C28: the upload loop of a first segment compares with the empty token, so
\* its first answer is accepted whatever it is and no second upload is made;
\* a single-segment scene whose frame was extracted makes exactly one upload
\* call, in one upload loop, and never ends in UploadStalenessError.
C28_FirstSegmentUpload ==
  /\ \A n \in 1..Len(uploadLog) :
       LET f == uploadLog[n] IN
         /\ f.seg = 1 =>
              /\ f.held = NoURL
              /\ Len(f.urls) <= 1
              /\ f.outcome # "stale"
              /\ Len(f.urls) = 1 => f.outcome = "ready" /\ f.token = f.urls[1]
         /\ SingleSegment(f.scene) =>
              /\ f.seg = 1
              /\ \A m \in (n + 1)..Len(uploadLog) : uploadLog[m].scene # f.scene
  /\ error = "UploadStalenessError" => ~SingleSegment(errAt.scene)
  /\ \A n \in 1..Len(extractions) :
       LET x == extractions[n] IN
         (/\ SingleSegment(x.scene)
          /\ x.outcome = "frame"
          /\ ~(pc = "upload" /\ i = x.scene))
           => \E m \in 1..Len(uploadLog) :
                uploadLog[m].scene = x.scene /\ Len(uploadLog[m].urls) = 1

\* the first upload of a single-segment scene returned the URL held as the
\* previous scene's last frame, and was accepted
C28_Witness ==
  \E n \in 1..Len(uploadLog) : LET f == uploadLog[n] IN
    /\ SingleSegment(f.scene)
    /\ f.outcome = "ready"
    /\ \E a \in Accepted : a.scene + 1 = f.scene /\ a.last /\ a.url = f.token

\* C29: the step that accepts the upload of a non-final segment writes the
\* accepted URL to the within-scene token and leaves the cross-scene token
\* as it was; the step that accepts the upload of a final segment writes it
\* to the cross-scene token and leaves the within-scene token as it was; the
\* within-scene token is empty when the first segment of a scene is about to
\* be rendered, and no first segment is rendered from it.
C29_SlotOwnership ==
  /\ [][Len(accepted') = Len(accepted) + 1 =>
          LET a == accepted'[Len(accepted')] IN
            IF a.last
            THEN /\ last_frame_url' = a.url
                 /\ UNCHANGED segment_last_frame_url
            ELSE /\ segment_last_frame_url' = a.url
                 /\ UNCHANGED last_frame_url
       ]_vars
  /\ []((pc = "render" /\ vid_idx = 1) => segment_last_frame_url = NoURL)
  /\ [](\A r \in Renders : r.seg = 1 => r.src # "within")

\* a scene is about to start after a scene of two segments, whose first
\* segment had published a within-scene token
C29_Witness ==
  /\ pc = "render"
  /\ vid_idx = 1
  /\ segment_last_frame_url = NoURL
  /\ \E a \in Accepted : ~a.last /\ a.scene < i
  /\ \E a \in Accepted : a.last /\ a.scene < i

\* C30: in LoRA first-frame mode, with any engine, the first segment of a
\* scene starts from the initial frame of the run when there is one and the
\* scene is the first; else from the scene's LoRA frame when its generation
\* succeeded; else from the URL accepted for the last frame of the previous
\* scene; else from nothing.  A failed LoRA generation leaves the scene
\* without a LoRA frame and the run goes on with the next choice.
C30_LoraPriority ==
  lora_in_first_frame_mode =>
    \A r \in Renders :
      r.seg = 1 =>
        IF r.scene = 0 /\ first_frame_of_first_scene_url # NoURL
        THEN r.src = "initial" /\ r.url = first_frame_of_first_scene_url
        ELSE IF r.lora # NoURL
        THEN r.src = "lora" /\ r.url = r.lora /\ r.lora = LoraURL(r.scene)
        ELSE IF r.scene > 0
        THEN /\ r.src = "cross"
             /\ \E a \in FinalAccepted(r.scene - 1) : a.url = r.url
        ELSE r.src = "none" /\ r.url = NoURL

\* with fal: the initial frame was preferred to the LoRA frame of the first
\* scene, and the second scene, whose LoRA frame failed, started from the
\* previous scene's last frame
C30_Witness ==
  /\ lora_in_first_frame_mode
  /\ video_engine = "fal"
  /\ \E r \in Renders : r.scene = 0 /\ r.src = "initial" /\ r.lora # NoURL
  /\ \E r \in Renders : r.scene = 1 /\ r.src = "cross" /\ r.lora = NoURL

====
